---- MODULE Spec2Model ----
(***************************************************************************)
(* Cargo Integrity State Engine of src/transport-dashboard.jsx: the        *)
(* Dashboard component's state (tripData, incidents, tempHistory, crop,    *)
(* isAutoPlay, newRowId), its refs (idRef, autoRef), the interval armed by *)
(* the auto-play effect, and the handlers that change them.                *)
(*                                                                         *)
(* Units.  Temperatures and g-forces have one decimal in the source        *)
(* (toFixed(1), slider step 0.1); they are modelled as integers in tenths: *)
(* 28.5 C is 285, 3.1 g is 31.  Tilt is in whole degrees, cisScore is an   *)
(* integer.  The wall-clock `time` strings of incidents and samples        *)
(* (nowTime) are not modelled.                                             *)
(*                                                                         *)
(* React.  A state update is queued by its setter and applied by the next  *)
(* render of Dashboard.  A click or slider event renders before the event  *)
(* returns; the updates an interval callback queues are rendered by a      *)
(* later scheduler task, so an event handler can run in between, with the  *)
(* closures of the last render.  A render that throws is not committed:    *)
(* there is no error boundary, so React unmounts Dashboard, its state is   *)
(* gone and its effects are cleaned up.                                    *)
(* src/unnamed/part_000 renders Dashboard                                  *)
(* inside StrictMode: a development build calls an updater function twice  *)
(* and keeps one result, a production build calls it once.  The model      *)
(* leaves the number of calls open (1 or 2).                               *)
(***************************************************************************)
EXTENDS Integers, Sequences, FiniteSets, TLC

VARIABLES
    crop,         \* useState("Tomatoes"): name of the active crop profile
    isAutoPlay,   \* useState(false): simulator run flag
    tripData,     \* useState({cisScore, currentTemp, peakGForce, currentTilt})
    incidents,    \* useState(INITIAL_INCIDENTS): the incident log
    tempHistory,  \* useState(INITIAL_TEMP_HISTORY): temperature samples (tenths)
    derived,      \* what the last render derived: marketLoss and the status keys
    newRowId,     \* useState(null): id of the log row shown as new (0 = null)
    idRef,        \* useRef(100): last incident id handed out
    autoRef,      \* useRef(null): handle of the last interval armed (0 = null)
    timers,       \* the intervals armed in the event loop: {[id, crop]}
    pending,      \* the tick dispatched by the interval and not yet rendered
    thrown,       \* the error the last operation ended with ("none": none); the
                  \* program's only errors are thrown by a render, which unmounts it
    ops           \* exploration counter: injections, overrides, crop choices and ticks so far

vars == <<crop, isAutoPlay, tripData, incidents, tempHistory, derived,
          newRowId, idRef, autoRef, timers, pending, thrown, ops>>

-----------------------------------------------------------------------------
(* Bounds of the exploration *)

MaxOps == 3

-----------------------------------------------------------------------------
(* Constants of the program *)

BASE_CIS == 88
IdStart_Low == 8 - 1
IdStart == 100
TempMin == 150
TempMax == 450
HistoryKeep == 19
MaxDrift == 5
ShockBase == 5

Crops == {"Tomatoes", "Bananas", "Potatoes"}

CROP_PROFILES ==
    [c \in Crops |->
       CASE c = "Tomatoes" ->
              [cargoValue |-> 10000, tempDanger |-> 300, tempWarning |-> 270,
               gforceCritical |-> 20, gforceWarning |-> 15, tiltCritical |-> 25]
         [] c = "Bananas" ->
              [cargoValue |-> 8000, tempDanger |-> 250, tempWarning |-> 220,
               gforceCritical |-> 15, gforceWarning |-> 10, tiltCritical |-> 20]
         [] c = "Potatoes" ->
              [cargoValue |-> 6000, tempDanger |-> 350, tempWarning |-> 300,
               gforceCritical |-> 30, gforceWarning |-> 20, tiltCritical |-> 30]]

Incident(id, event, type, gforce, temp, deduction, sim) ==
    [id |-> id, event |-> event, type |-> type, gforce |-> gforce,
     temp |-> temp, deduction |-> deduction, sim |-> sim]

INITIAL_INCIDENTS ==
    << Incident(1, "Trip Started",        "info",     2,  241, 0, FALSE),
       Incident(2, "Hard Braking",        "warning",  18, 248, 2, FALSE),
       Incident(3, "Severe Pothole",      "critical", 31, 253, 5, FALSE),
       Incident(4, "Sharp Corner",        "warning",  14, 261, 1, FALSE),
       Incident(5, "AC Fluctuation",      "critical", 3,  320, 7, FALSE),
       Incident(6, "Road Vibration",      "warning",  11, 294, 1, FALSE),
       Incident(7, "Sudden Stop",         "warning",  21, 285, 3, FALSE),
       Incident(8, "Destination Arrived", "info",     1,  285, 0, FALSE) >>

INITIAL_TEMP_HISTORY ==
    << 240, 243, 249, 253, 258, 265, 272, 320, 314, 301, 296, 291, 285, 285 >>

-----------------------------------------------------------------------------
(* Helpers *)

Max(a, b) == IF a >= b THEN a ELSE b
Min(a, b) == IF a <= b THEN a ELSE b

RECURSIVE SumDeductions(_)
SumDeductions(s) ==
    IF s = <<>> THEN 0 ELSE Head(s).deduction + SumDeductions(Tail(s))

computeCIS(incs) == Max(0, BASE_CIS - SumDeductions(incs))

\* [...h.slice(-19), sample]
PushSample_Keep20(h, t) ==
    LET n == Len(h)
        kept == IF n <= HistoryKeep + 1 THEN h
                ELSE SubSeq(h, n - HistoryKeep, n)
    IN  Append(kept, t)
PushSample(h, t) ==
    LET n == Len(h)
        kept == IF n <= HistoryKeep THEN h ELSE SubSeq(h, n - HistoryKeep + 1, n)
    IN  Append(kept, t)

RECURSIVE PushSamples(_, _)
PushSamples(h, ts) ==
    IF ts = <<>> THEN h ELSE PushSamples(PushSample(h, Head(ts)), Tail(ts))

\* [...prev, entry]
AppendIncidents_Prepend(log, es) == es \o log
AppendIncidents(log, es) == log \o es

-----------------------------------------------------------------------------
(* What a render derives from tripData and the active profile *)

\* calcMarketLoss computes -((100 - cis) / 100 * cargoValue) in IEEE-754
\* doubles.  The quotient is rounded, and so is its product with cargoValue:
\* for these (cis, cargoValue) the result is the double next to the exact
\* value -(100 - cis) * cargoValue / 100, one unit in the last place further
\* from zero (calcMarketLoss(19, 10000) is -8100.000000000001) ...
LossRoundedAway ==
    {<<s, 10000>> : s \in {19, 32, 44, 66, 72, 83, 86, 93}}
      \cup {<<s, 6000>> : s \in {32, 33, 44, 45, 66, 72, 83, 86, 93}}

\* ... or nearer to zero (calcMarketLoss(31, 10000) is -6899.999999999999).
\* For every other cis in 0..100 and cargoValue of CROP_PROFILES it is exact.
LossRoundedToZero ==
    {<<s, 10000>> : s \in {31, 43}} \cup {<<s, 6000>> : s \in {42, 43, 71}}

\* A double near a whole number: `whole` plus `ulps` units in the last place
calcMarketLoss_IntDiv(cis, cargoValue) ==
    [whole |-> -(((100 - cis) \div 100) * cargoValue), ulps |-> 0]
calcMarketLoss(cis, cargoValue) ==
    [whole |-> -(((100 - cis) * cargoValue) \div 100),
     ulps |-> IF <<cis, cargoValue>> \in LossRoundedAway THEN -1
              ELSE IF <<cis, cargoValue>> \in LossRoundedToZero THEN 1 ELSE 0]

getTempStatusKey_Inclusive(temp, profile) ==
    IF temp >= profile.tempDanger THEN "critical"
    ELSE IF temp > profile.tempWarning THEN "warning" ELSE "optimal"
getTempStatusKey(temp, profile) ==
    IF temp > profile.tempDanger THEN "critical"
    ELSE IF temp > profile.tempWarning THEN "warning" ELSE "optimal"

getGForceStatusKey(g, profile) ==
    IF g > profile.gforceCritical THEN "critical"
    ELSE IF g > profile.gforceWarning THEN "warning" ELSE "stable"

\* tilt > profile.tiltCritical * 0.6: the product is exact in doubles for the
\* tiltCritical of CROP_PROFILES (15, 12, 18)
getTiltStatusKey(tilt, profile) ==
    IF tilt > profile.tiltCritical THEN "critical"
    ELSE IF 10 * tilt > 6 * profile.tiltCritical THEN "warning" ELSE "stable"

\* marketLoss (useMemo) and the four status keys of the Dashboard body
Derive(trip, profile) ==
    [marketLoss |-> calcMarketLoss(trip.cisScore, profile.cargoValue),
     tempStatusKey |-> getTempStatusKey(trip.currentTemp, profile),
     shockStatusKey |-> getGForceStatusKey(trip.peakGForce, profile),
     tiltStatusKey |-> getTiltStatusKey(trip.currentTilt, profile)]

\* The render that commits the next state derives them anew
Rendered_Stale == derived' = Derive(tripData', CROP_PROFILES[crop])
Rendered == derived' = Derive(tripData', CROP_PROFILES[crop'])

-----------------------------------------------------------------------------
(* The tick: the updater the interval callback hands to setTripData *)

Clamp_Open(x, lo, hi) == x
Clamp(x, lo, hi) == Min(hi, Max(lo, x))

\* The values Math.random() produces in a tick: the drift in tenths
\* (toFixed(1) of a number in [-0.5, 0.5)), whether the shock fires
\* (random < 0.3), and the shock in tenths, 0.5 + random * 1.8 * gforceCritical.
ShockMax(profile) == ShockBase + (18 * profile.gforceCritical) \div 10

\* The draws tried: a drift without a shock, a shock at the critical
\* threshold (no incident), and a shock above 1.5 times the threshold.
Draws(profile) ==
    LET gc == profile.gforceCritical
    IN  { [drift |-> MaxDrift, fires |-> FALSE, g |-> 0],
          [drift |-> 0, fires |-> TRUE, g |-> gc],
          [drift |-> -MaxDrift, fires |-> TRUE, g |-> (15 * gc) \div 10 + 1] }

\* Every value the draws can have: drift -0.5 .. 0.5, and the shock, when it
\* fires, 0.5 .. 0.5 + 1.8 * gforceCritical
AllDraws(profile) ==
    [drift : (-MaxDrift)..MaxDrift, fires : {FALSE}, g : {0}]
      \cup [drift : (-MaxDrift)..MaxDrift, fires : {TRUE},
            g : ShockBase..ShockMax(profile)]

\* pen = newG > gforceCritical * 1.5 ? 3 : 1
TickPenalty_Credit(newG, profile) ==
    IF 10 * newG > 15 * profile.gforceCritical THEN -3 ELSE -1
TickPenalty(newG, profile) ==
    IF 10 * newG > 15 * profile.gforceCritical THEN 3 ELSE 1

\* type: newG > gforceCritical * 1.3 ? "critical" : "warning"
TickSeverity(newG, profile) ==
    IF 10 * newG > 13 * profile.gforceCritical THEN "critical" ELSE "warning"

\* One call of the updater on `prev` with the random values `draw`; `id` is
\* idRef.current + 1.  The result is the returned tripData and what the call
\* hands to setIncidents (inc, empty or one entry), setNewRowId (note, empty
\* or one id) and setTempHistory (hist).
TickUpdater_NoFloor(prev, profile, draw, id) ==
    LET newTemp == Clamp(prev.currentTemp + draw.drift, TempMin, TempMax)
        newG == IF draw.fires THEN draw.g ELSE prev.peakGForce
        hit == draw.fires /\ newG > profile.gforceCritical
        pen == TickPenalty(newG, profile)
        newCIS == IF hit THEN prev.cisScore - pen ELSE prev.cisScore
    IN  [trip |-> [prev EXCEPT !.currentTemp = newTemp, !.peakGForce = newG,
                               !.cisScore = newCIS],
         inc |-> IF hit
                   THEN << Incident(id, "Auto: Road Shock",
                                    TickSeverity(newG, profile), newG, newTemp,
                                    pen, TRUE) >>
                   ELSE <<>>,
         note |-> IF hit THEN << id >> ELSE <<>>,
         hist |-> << newTemp >>]
TickUpdater(prev, profile, draw, id) ==
    LET newTemp == Clamp(prev.currentTemp + draw.drift, TempMin, TempMax)
        newG == IF draw.fires THEN draw.g ELSE prev.peakGForce
        hit == draw.fires /\ newG > profile.gforceCritical
        pen == TickPenalty(newG, profile)
        newCIS == IF hit THEN Max(0, prev.cisScore - pen) ELSE prev.cisScore
    IN  [trip |-> [prev EXCEPT !.currentTemp = newTemp, !.peakGForce = newG,
                               !.cisScore = newCIS],
         inc |-> IF hit
                   THEN << Incident(id, "Auto: Road Shock",
                                    TickSeverity(newG, profile), newG, newTemp,
                                    pen, TRUE) >>
                   ELSE <<>>,
         note |-> IF hit THEN << id >> ELSE <<>>,
         hist |-> << newTemp >>]

-----------------------------------------------------------------------------
(* The handlers' updates *)

Scenarios == {"pothole", "ac", "shift"}

PotholeG == 35
PotholeDeduction == 5
AcTemp == 350
AcDeduction_Pothole == PotholeDeduction
AcDeduction == 10
ShiftTilt == 28
ShiftDeduction == 6

ScenarioDeduction_Swapped(type) ==
    CASE type = "pothole" -> PotholeDeduction
      [] type = "ac" -> ShiftDeduction
      [] type = "shift" -> AcDeduction
ScenarioDeduction(type) ==
    CASE type = "pothole" -> PotholeDeduction
      [] type = "ac" -> AcDeduction
      [] type = "shift" -> ShiftDeduction

\* The entry handleInject builds; `seen` is the tripData of the render that
\* created the handler (useCallback(..., [tripData])).
InjectEntry(type, id, seen) ==
    CASE type = "pothole" ->
           Incident(id, "Simulated Pothole", "critical", PotholeG,
                    seen.currentTemp, ScenarioDeduction(type), TRUE)
      [] type = "ac" ->
           Incident(id, "Simulated AC Failure", "critical", seen.peakGForce,
                    AcTemp, ScenarioDeduction(type), TRUE)
      [] type = "shift" ->
           Incident(id, "Simulated Cargo Shift", "critical", seen.peakGForce,
                    seen.currentTemp, ScenarioDeduction(type), TRUE)

\* d => ({ ...d, <field>: <value>, cisScore: Math.max(0, d.cisScore - deduction) })
InjectUpdater_NoFloor(type, d) ==
    LET score == d.cisScore - ScenarioDeduction(type)
    IN  CASE type = "pothole" -> [d EXCEPT !.peakGForce = PotholeG, !.cisScore = score]
          [] type = "ac" -> [d EXCEPT !.currentTemp = AcTemp, !.cisScore = score]
          [] type = "shift" -> [d EXCEPT !.currentTilt = ShiftTilt, !.cisScore = score]
InjectUpdater(type, d) ==
    LET score == Max(0, d.cisScore - ScenarioDeduction(type))
    IN  CASE type = "pothole" -> [d EXCEPT !.peakGForce = PotholeG, !.cisScore = score]
          [] type = "ac" -> [d EXCEPT !.currentTemp = AcTemp, !.cisScore = score]
          [] type = "shift" -> [d EXCEPT !.currentTilt = ShiftTilt, !.cisScore = score]

\* setTempHistory call of handleInject: only the "ac" branch has one
InjectSamples_Always(type) == << AcTemp >>
InjectSamples(type) == IF type = "ac" THEN << AcTemp >> ELSE <<>>

\* d => ({ ...d, currentTemp: val })
TempUpdater_Rescore(val, d) ==
    [d EXCEPT !.currentTemp = val, !.cisScore = BASE_CIS]
TempUpdater(val, d) == [d EXCEPT !.currentTemp = val]

\* d => ({ ...d, peakGForce: val })
GForceUpdater_Temp(val, d) == [d EXCEPT !.currentTemp = val]
GForceUpdater(val, d) == [d EXCEPT !.peakGForce = val]

\* v => !v
ToggleUpdater_Set(v) == TRUE
ToggleUpdater(v) == ~v

\* A queued setTripData update of an event handler, as data
ApplyUpdate(u, d) ==
    CASE u.op = "inject" -> InjectUpdater(u.arg, d)
      [] u.op = "temp" -> TempUpdater(u.arg, d)
      [] u.op = "gforce" -> GForceUpdater(u.arg, d)

RECURSIVE ApplyUpdates(_, _)
ApplyUpdates(us, d) ==
    IF us = <<>> THEN d ELSE ApplyUpdates(Tail(us), ApplyUpdate(Head(us), d))

-----------------------------------------------------------------------------
(* Rendering: applying the queued updates *)

NoTick == [kind |-> "none"]

\* The calls of the pending tick's updater that a render makes, as the
\* sequence of their random values.  A tick whose updater was called when it
\* was dispatched ("eager") is not called again, or once more with the result
\* dropped (development build).  A tick whose updater was only queued
\* ("lazy") is called once, or twice with the first result dropped.
RenderCalls(pend) ==
    CASE pend.kind = "none" -> { <<>> }
      [] pend.kind = "eager" ->
           { <<>> } \cup { <<d>> : d \in Draws(CROP_PROFILES[pend.crop]) }
      [] pend.kind = "lazy" ->
           LET D == Draws(CROP_PROFILES[pend.crop])
           IN  { <<d>> : d \in D } \cup { <<d1, d2>> : d1 \in D, d2 \in D }

\* The results of those calls: each is applied to the same base state, and
\* each that appends an incident takes the next id from idRef.
RECURSIVE RunCalls(_, _, _, _)
RunCalls(ds, base, profile, id) ==
    IF ds = <<>> THEN <<>>
    ELSE LET r == TickUpdater(base, profile, Head(ds), id + 1)
         IN  <<r>> \o RunCalls(Tail(ds), base, profile, id + Len(r.inc))

RECURSIVE Gather(_, _)
Gather(rs, field) ==
    IF rs = <<>> THEN <<>> ELSE Head(rs)[field] \o Gather(Tail(rs), field)

\* One render of Dashboard from the rendered tripData `base` with the tick
\* `pend` queued.  us, es, hs, ns: what the event handler that caused the
\* render queued with setTripData, setIncidents, setTempHistory and
\* setNewRowId, and id: idRef.current when the handler returned.  The tripData
\* queue holds the tick's update, then us; the other queues hold what the tick
\* queued when it was dispatched, then es, hs or ns, then what the updater
\* calls of this render queue.
RenderOutcome(base, pend, ds, us, es, hs, ns, id) ==
    LET rs == IF pend.kind = "none" THEN <<>>
              ELSE RunCalls(ds, base, CROP_PROFILES[pend.crop], id)
        afterTick == CASE pend.kind = "none"  -> base
                       [] pend.kind = "eager" -> pend.trip
                       [] pend.kind = "lazy"  -> rs[Len(rs)].trip
        queuedInc == IF pend.kind = "eager" THEN pend.inc ELSE <<>>
        queuedHist == IF pend.kind = "eager" THEN pend.hist ELSE <<>>
        queuedNote == IF pend.kind = "eager" THEN pend.note ELSE <<>>
    IN  [trip |-> ApplyUpdates(us, afterTick),
         incs |-> queuedInc \o es \o Gather(rs, "inc"),
         hist |-> queuedHist \o hs \o Gather(rs, "hist"),
         notes |-> queuedNote \o ns \o Gather(rs, "note"),
         idRef |-> id + Len(Gather(rs, "inc"))]

\* newRowId is a plain value: of the ids queued for it the last one stays
Commit(us, es, hs, ns, id) ==
    /\ thrown = "none"
    /\ \E o \in {RenderOutcome(tripData, pending, ds, us, es, hs, ns, id) :
                    ds \in RenderCalls(pending)} :
          /\ tripData' = o.trip
          /\ incidents' = AppendIncidents(incidents, o.incs)
          /\ tempHistory' = PushSamples(tempHistory, o.hist)
          /\ newRowId' = IF o.notes = <<>> THEN newRowId
                          ELSE o.notes[Len(o.notes)]
          /\ idRef' = o.idRef
          /\ pending' = NoTick
    /\ thrown' = thrown

-----------------------------------------------------------------------------
(* The auto-play effect, run after a commit that changed isAutoPlay or profile *)

clearInterval_None(ts, h) == ts
clearInterval(ts, h) == {t \in ts : t.id # h}

\* setInterval returns a handle that identifies no armed timer
FreshHandle(ts) ==
    CHOOSE h \in 1..(Cardinality(ts) + 1) : \A t \in ts : t.id # h

\* wasAuto: isAutoPlay of the previous run (that run returned the cleanup of
\* line 502 only if it got past `if (!isAutoPlay) return`).
EffectResult_NoClear(ts, ref, wasAuto, nowAuto, nowCrop) ==
    IF nowAuto
      THEN LET h == FreshHandle(ts)
           IN  [timers |-> ts \cup {[id |-> h, crop |-> nowCrop]}, autoRef |-> h]
      ELSE [timers |-> ts, autoRef |-> ref]
EffectResult(ts, ref, wasAuto, nowAuto, nowCrop) ==
    LET cleaned == IF wasAuto THEN clearInterval(ts, ref) ELSE ts
        cleared == IF ref # 0 THEN clearInterval(cleaned, ref) ELSE cleaned
    IN  IF nowAuto
          THEN LET h == FreshHandle(cleared)
               IN  [timers |-> cleared \cup {[id |-> h, crop |-> nowCrop]},
                    autoRef |-> h]
          ELSE [timers |-> cleared, autoRef |-> ref]

RunEffect(nowAuto, nowCrop) ==
    LET e == EffectResult(timers, autoRef, isAutoPlay, nowAuto, nowCrop)
    IN  /\ timers' = e.timers
        /\ autoRef' = e.autoRef

\* A render that throws `err`: nothing is committed, Dashboard is unmounted,
\* the cleanup of the auto-play effect clears its interval and what was
\* queued is dropped.  The refs keep what the handler wrote to them.
Unmount(err) ==
    /\ thrown = "none"
    /\ thrown' = err
    /\ timers' = IF isAutoPlay THEN clearInterval(timers, autoRef) ELSE timers
    /\ pending' = NoTick
    /\ UNCHANGED <<crop, isAutoPlay, tripData, incidents, tempHistory, derived,
                   newRowId, autoRef>>

-----------------------------------------------------------------------------
(* Initial state *)

InitTemp == 285
InitGForce == 31
InitTilt == 12

\* The session as constructed: rendered tripData, log, history and idRef
StartSession ==
    [trip |-> [cisScore |-> computeCIS(INITIAL_INCIDENTS),
               currentTemp |-> InitTemp, peakGForce |-> InitGForce,
               currentTilt |-> InitTilt],
     incs |-> INITIAL_INCIDENTS,
     hist |-> INITIAL_TEMP_HISTORY,
     idRef |-> IdStart]

InitFrom(st) ==
    /\ crop = "Tomatoes"
    /\ isAutoPlay = FALSE
    /\ tripData = st.trip
    /\ incidents = st.incs
    /\ tempHistory = st.hist
    /\ derived = Derive(st.trip, CROP_PROFILES["Tomatoes"])
    /\ newRowId = 0
    /\ idRef = st.idRef
    /\ autoRef = 0
    /\ timers = {}
    /\ pending = NoTick
    /\ thrown = "none"
    /\ ops = 0

Init == InitFrom(StartSession)

-----------------------------------------------------------------------------
(* Operations *)

\* Slider positions tried (min 15, max 45, step 0.1; min 0.5, max 5.0)
TempInputs == {450}
GForceInputs == {50}

\* <input type="range" min max step>: the value the element reports is the
\* value set on it brought into [min, max] (step 0.1 is the model's unit)
TempSliderMin == 150
TempSliderMax == 450
GForceSliderMin == 5
GForceSliderMax == 50

RangeInput_NoClamp(v, lo, hi) == v
RangeInput(v, lo, hi) == IF v < lo THEN lo ELSE IF v > hi THEN hi ELSE v

\* A type that matches no branch leaves `entry` undefined: setIncidents
\* appends undefined, and the render throws where it reads a field of it
\* (incidents.filter(i => i.deduction > 0), line 660).
handleInject(type) ==
    LET id == idRef + 1
    IN  IF type \in Scenarios
          THEN /\ UNCHANGED <<crop, isAutoPlay, autoRef, timers>>
               /\ Commit(<< [op |-> "inject", arg |-> type] >>,
                         << InjectEntry(type, id, tripData) >>,
                         InjectSamples(type), << id >>, id)
               /\ Rendered
          ELSE /\ idRef' = id
               /\ Unmount("TypeError")

handleTempChange(val) ==
    /\ UNCHANGED <<crop, isAutoPlay, autoRef, timers>>
    /\ Commit(<< [op |-> "temp", arg |-> val] >>, <<>>, << val >>, <<>>, idRef)
    /\ Rendered

handleGForceChange(val) ==
    /\ UNCHANGED <<crop, isAutoPlay, autoRef, timers>>
    /\ Commit(<< [op |-> "gforce", arg |-> val] >>, <<>>, <<>>, <<>>, idRef)
    /\ Rendered

Inject(type) ==
    /\ ops < MaxOps
    /\ ops' = ops + 1
    /\ handleInject(type)

SetTemperature(val) ==
    /\ ops < MaxOps
    /\ ops' = ops + 1
    /\ handleTempChange(RangeInput(val, TempSliderMin, TempSliderMax))

SetGForce(val) ==
    /\ ops < MaxOps
    /\ ops' = ops + 1
    /\ handleGForceChange(RangeInput(val, GForceSliderMin, GForceSliderMax))

\* onClick={() => { setCrop(name); setDropOpen(false); }}
\* With a name that is no key of CROP_PROFILES, `profile` is undefined and
\* the render throws where it reads profile.cargoValue (line 410).
SelectCrop_Reset(name) ==
    /\ ops < MaxOps
    /\ name \in Crops
    /\ Commit(<< [op |-> "temp", arg |-> InitTemp] >>, <<>>, <<>>, <<>>, idRef)
    /\ crop' = name
    /\ RunEffect(isAutoPlay, name)
    /\ UNCHANGED isAutoPlay
    /\ Rendered
    /\ ops' = ops + 1
SelectCrop(name) ==
    /\ ops < MaxOps
    /\ ops' = ops + 1
    /\ IF name \in Crops
         THEN /\ crop' = name
              /\ UNCHANGED isAutoPlay
              /\ Commit(<<>>, <<>>, <<>>, <<>>, idRef)
              /\ IF name # crop
                   THEN RunEffect(isAutoPlay, name)
                   ELSE UNCHANGED <<autoRef, timers>>
              /\ Rendered
         ELSE /\ Unmount("TypeError")
              /\ UNCHANGED idRef

\* onClick={() => setIsAutoPlay(v => !v)}
ToggleAutoPlay ==
    /\ UNCHANGED <<crop, ops>>
    /\ isAutoPlay' = ToggleUpdater(isAutoPlay)
    /\ Commit(<<>>, <<>>, <<>>, <<>>, idRef)
    /\ RunEffect(isAutoPlay', crop)
    /\ Rendered

\* The interval callback: setTripData(prev => ...).  The updater is called
\* at once when nothing is queued on the component ...
\* (d: the random values of that call)
DispatchEagerWith(t, d) ==
    /\ t \in timers
    /\ pending.kind = "none"
    /\ LET r == TickUpdater(tripData, CROP_PROFILES[t.crop], d, idRef + 1)
       IN  /\ pending' = [kind |-> "eager", crop |-> t.crop, draw |-> d,
                          trip |-> r.trip, inc |-> r.inc, note |-> r.note,
                          hist |-> r.hist]
           /\ idRef' = idRef + Len(r.inc)
    /\ UNCHANGED <<crop, isAutoPlay, tripData, incidents, tempHistory, derived,
                   newRowId, autoRef, timers, thrown>>

DispatchEager(t) ==
    \E d \in Draws(CROP_PROFILES[t.crop]) : DispatchEagerWith(t, d)

\* ... and is otherwise queued for the render.
DispatchLazy(t) ==
    /\ t \in timers
    /\ pending.kind = "none"
    /\ pending' = [kind |-> "lazy", crop |-> t.crop]
    /\ UNCHANGED <<crop, isAutoPlay, tripData, incidents, tempHistory, derived,
                   newRowId, idRef, autoRef, timers, thrown>>

TickEager(t) ==
    /\ ops < MaxOps
    /\ DispatchEager(t)
    /\ ops' = ops + 1

TickLazy(t) ==
    /\ ops < MaxOps
    /\ DispatchLazy(t)
    /\ ops' = ops + 1

\* The scheduler task that renders the tick's updates
Render ==
    /\ pending.kind # "none"
    /\ UNCHANGED <<crop, isAutoPlay, autoRef, timers, ops>>
    /\ Commit(<<>>, <<>>, <<>>, <<>>, idRef)
    /\ Rendered

Next ==
    \/ \E type \in Scenarios : Inject(type)
    \/ \E val \in TempInputs : SetTemperature(val)
    \/ \E val \in GForceInputs : SetGForce(val)
    \/ \E name \in Crops : SelectCrop(name)
    \/ ToggleAutoPlay
    \/ \E t \in timers : TickEager(t)
    \/ \E t \in timers : TickLazy(t)
    \/ Render

Spec == Init /\ [][Next]_vars

-----------------------------------------------------------------------------
(* The session late in a trip: the state DeepInjects AC-failure injections   *)
(* after construction, from which the score floor is within reach            *)

DeepInjects == 6

\* handleInject(type) and its render with no tick queued, on a session record
InjectStep(st, type) ==
    LET id == st.idRef + 1
        o == RenderOutcome(st.trip, NoTick, <<>>,
                           << [op |-> "inject", arg |-> type] >>,
                           << InjectEntry(type, id, st.trip) >>,
                           InjectSamples(type), << id >>, id)
    IN  [trip |-> o.trip,
         incs |-> AppendIncidents(st.incs, o.incs),
         hist |-> PushSamples(st.hist, o.hist),
         idRef |-> o.idRef]

RECURSIVE AfterInjects(_, _, _)
AfterInjects(st, type, n) ==
    IF n = 0 THEN st ELSE AfterInjects(InjectStep(st, type), type, n - 1)

InitDeep == InitFrom(AfterInjects(StartSession, "ac", DeepInjects))

SpecDeep == InitDeep /\ [][Next]_vars

-----------------------------------------------------------------------------
(* The score ledger alone: injections repeated on a session whose seed log   *)
(* is a prefix of INITIAL_INCIDENTS (the empty seed starts at BASE_CIS)      *)

MaxPotholes == 20
MaxOthers == 1

SeedLogs == {SubSeq(INITIAL_INCIDENTS, 1, k) : k \in 0..Len(INITIAL_INCIDENTS)}

CountEvent(log, event) == Cardinality({i \in 1..Len(log) : log[i].event = event})

CountSim(log) == Cardinality({i \in 1..Len(log) : log[i].sim})

InitLedger ==
    \E seed \in SeedLogs :
        InitFrom([StartSession EXCEPT !.incs = seed,
                                      !.trip.cisScore = computeCIS(seed)])

LedgerInject(type) ==
    /\ IF type = "pothole"
         THEN CountEvent(incidents, "Simulated Pothole") < MaxPotholes
         ELSE CountSim(incidents) - CountEvent(incidents, "Simulated Pothole")
                < MaxOthers
    /\ handleInject(type)
    /\ ops' = ops

NextLedger == \E type \in Scenarios : LedgerInject(type)

SpecLedger == InitLedger /\ [][NextLedger]_vars

-----------------------------------------------------------------------------
(* The handlers driven with any argument: names outside the scenario table  *)
(* and the crop registry, values outside the sliders' ranges                *)

ScenarioNames == Scenarios \cup {"flood"}
CropNames == Crops \cup {"Mangoes"}
TempValues == {-100, 300, 1000}
GForceValues == {-10, 20, 100}

NextInputs ==
    \/ \E type \in ScenarioNames : Inject(type)
    \/ \E val \in TempValues : SetTemperature(val)
    \/ \E val \in GForceValues : SetGForce(val)
    \/ \E name \in CropNames : SelectCrop(name)
    \/ ToggleAutoPlay

SpecInputs == Init /\ [][NextInputs]_vars

-----------------------------------------------------------------------------
(* The derived values alone: the first render of a Dashboard whose state     *)
(* holds any reading (one of score, temperature, g-force or tilt away from   *)
(* the constructed session) under any crop                                   *)

NotRendered == [rendered |-> FALSE]

Readings ==
    LET r == StartSession.trip
    IN  {[r EXCEPT !.cisScore = s] : s \in 0..100}
          \cup {[r EXCEPT !.currentTemp = t] : t \in TempSliderMin..TempSliderMax}
          \cup {[r EXCEPT !.peakGForce = g] :
                   g \in GForceSliderMin..ShockMax(CROP_PROFILES["Potatoes"])}
          \cup {[r EXCEPT !.currentTilt = k] : k \in 0..45}

InitReadings ==
    /\ crop \in Crops
    /\ isAutoPlay = FALSE
    /\ tripData \in Readings
    /\ incidents = INITIAL_INCIDENTS
    /\ tempHistory = INITIAL_TEMP_HISTORY
    /\ derived = NotRendered
    /\ newRowId = 0
    /\ idRef = IdStart
    /\ autoRef = 0
    /\ timers = {}
    /\ pending = NoTick
    /\ thrown = "none"
    /\ ops = 0

FirstRender ==
    /\ derived = NotRendered
    /\ derived' = Derive(tripData, CROP_PROFILES[crop])
    /\ UNCHANGED <<crop, isAutoPlay, tripData, incidents, tempHistory, newRowId,
                   idRef, autoRef, timers, pending, thrown, ops>>

SpecReadings == InitReadings /\ [][FirstRender]_vars

-----------------------------------------------------------------------------
(* The temperature history over a long run: the slider moved up one step at  *)
(* a time from its minimum, with AC failures injected in between, and then   *)
(* a tick of the simulator                                                   *)

MaxAppends == 25

\* The slider position of the n-th override: 15.1, 15.2, ...
Ramp(n) == TempSliderMin + n

HistoryOverride ==
    /\ ops < MaxAppends
    /\ handleTempChange(RangeInput(Ramp(ops + 1), TempSliderMin, TempSliderMax))
    /\ ops' = ops + 1

HistoryInject ==
    /\ ops < MaxAppends
    /\ CountEvent(incidents, "Simulated AC Failure") < MaxOthers
    /\ handleInject("ac")
    /\ ops' = ops + 1

HistoryTickEager(t) ==
    /\ ops = MaxAppends
    /\ DispatchEager(t)
    /\ ops' = ops + 1

HistoryTickLazy(t) ==
    /\ ops = MaxAppends
    /\ DispatchLazy(t)
    /\ ops' = ops + 1

NextHistory ==
    \/ HistoryOverride
    \/ HistoryInject
    \/ ToggleAutoPlay
    \/ \E t \in timers : HistoryTickEager(t)
    \/ \E t \in timers : HistoryTickLazy(t)
    \/ Render

SpecHistory == Init /\ [][NextHistory]_vars

-----------------------------------------------------------------------------
(* Properties *)

Session == [trip |-> tripData, incs |-> incidents, hist |-> tempHistory,
            idRef |-> idRef]

HasEvent(log, event) == \E i \in 1..Len(log) : log[i].event = event

\* The entries an operation added to the log
Added == SubSeq(incidents', Len(incidents) + 1, Len(incidents'))

\* C1: in every reachable state cisScore equals max(0, 88 - the sum of the
\* deductions of all incidents in the log).
C1_ScoreMatchesLog == tripData.cisScore = computeCIS(incidents)

\* C2: a tick is one transaction: the render of a tick appends at most one
\* incident and exactly one temperature sample (the new currentTemp), and
\* cisScore drops by exactly the deductions of the incidents it appended.
C2_TickIsOneTransaction ==
    [][Render =>
         /\ Len(incidents') <= Len(incidents) + 1
         /\ tempHistory' = PushSample(tempHistory, tripData'.currentTemp)
         /\ tripData'.cisScore
              = Max(0, tripData.cisScore - SumDeductions(Added))]_vars

\* C3: once the simulator is stopped no tick source is armed and no tick is
\* in flight, so no tick executes and the simulator changes nothing until
\* the next start.
C3_StoppedMeansNoTick ==
    ~isAutoPlay => (timers = {} /\ pending.kind = "none")

C3_Witness ==
    /\ ~isAutoPlay
    /\ autoRef # 0
    /\ HasEvent(incidents, "Auto: Road Shock")

\* C4: the log is append-only: for every operation the log before it is a
\* prefix of the log after it.
C4_AppendOnly ==
    [][/\ Len(incidents') >= Len(incidents)
       /\ SubSeq(incidents', 1, Len(incidents)) = incidents]_vars

C4_Witness ==
    /\ Len(incidents) >= Len(INITIAL_INCIDENTS) + 2
    /\ HasEvent(incidents, "Auto: Road Shock")
    /\ HasEvent(incidents, "Simulated Cargo Shift")

\* C5: the ids of the log are strictly increasing in log order, whatever the
\* mixture of seeded, injected and tick incidents and of crop switches.
C5_IdsStrictlyIncreasing ==
    \A i \in 1..(Len(incidents) - 1) : incidents[i].id < incidents[i + 1].id

C5_Witness ==
    /\ crop # "Tomatoes"
    /\ HasEvent(incidents, "Auto: Road Shock")
    /\ HasEvent(incidents, "Simulated Pothole")

\* The event-handler operations that can race with a tick
Clicks ==
    [op : {"inject"}, arg : Scenarios]
      \cup [op : {"temp"}, arg : TempInputs]
      \cup [op : {"gforce"}, arg : GForceInputs]

ClickAction(c) ==
    CASE c.op = "inject" -> Inject(c.arg)
      [] c.op = "temp" -> SetTemperature(c.arg)
      [] c.op = "gforce" -> SetGForce(c.arg)

\* The operation c run alone on the session st
ClickStep(st, c) ==
    LET id == IF c.op = "inject" THEN st.idRef + 1 ELSE st.idRef
        es == IF c.op = "inject" THEN << InjectEntry(c.arg, id, st.trip) >> ELSE <<>>
        hs == CASE c.op = "inject" -> InjectSamples(c.arg)
                [] c.op = "temp" -> << c.arg >>
                [] c.op = "gforce" -> <<>>
        ns == IF c.op = "inject" THEN << id >> ELSE <<>>
        o == RenderOutcome(st.trip, NoTick, <<>>, <<c>>, es, hs, ns, id)
    IN  [trip |-> o.trip,
         incs |-> AppendIncidents(st.incs, o.incs),
         hist |-> PushSamples(st.hist, o.hist),
         idRef |-> o.idRef]

\* One tick run alone on the session st, as one transaction
TickStep(st, profile, d) ==
    LET r == TickUpdater(st.trip, profile, d, st.idRef + 1)
    IN  [trip |-> r.trip,
         incs |-> AppendIncidents(st.incs, r.inc),
         hist |-> PushSamples(st.hist, r.hist),
         idRef |-> st.idRef + Len(r.inc)]

SerialOutcomes(st, c, profile) ==
    { ClickStep(TickStep(st, profile, d), c) : d \in Draws(profile) }
      \cup { TickStep(ClickStep(st, c), profile, d) : d \in Draws(profile) }

\* C6: overrides and injections serialize against ticks: when one of them
\* runs while a tick is in flight, the resulting session equals that of the
\* tick and the operation run one after the other, in one of the two orders.
C6_RaceIsSerial ==
    [][\A c \in Clicks :
         (pending.kind # "none" /\ ClickAction(c))
            => Session' \in SerialOutcomes(Session, c, CROP_PROFILES[pending.crop])]_vars

\* C7: in every reachable state cisScore is an integer in 0..100.
C7_ScoreInRange == tripData.cisScore \in 0..100

C7_Witness ==
    /\ tripData.cisScore = 0
    /\ SumDeductions(incidents) > BASE_CIS
    /\ HasEvent(incidents, "Auto: Road Shock")

TickScores(score) == {score, Max(0, score - 1), Max(0, score - 3)}

\* C9: inject applies the row of its scenario: pothole sets peakGForce to
\* 3.5 and deducts 5, ac (ac_failure) sets currentTemp to 35.0 and deducts
\* 10, shift (cargo_shift) sets currentTilt to 28 and deducts 6; each appends
\* exactly one incident, critical and simulated, with that deduction and the
\* next id, and sets cisScore to max(0, cisScore - deduction), from any state
\* (with a tick in flight: from the score that tick leaves).
C9_InjectAppliesRow ==
    [][\A type \in Scenarios :
         Inject(type) =>
           LET row == CASE type = "pothole" ->
                             [field |-> "peakGForce", value |-> 35, deduction |-> 5,
                              event |-> "Simulated Pothole"]
                        [] type = "ac" ->
                             [field |-> "currentTemp", value |-> 350, deduction |-> 10,
                              event |-> "Simulated AC Failure"]
                        [] type = "shift" ->
                             [field |-> "currentTilt", value |-> 28, deduction |-> 6,
                              event |-> "Simulated Cargo Shift"]
               mine == {i \in 1..Len(Added) : Added[i].event = row.event}
           IN  /\ tripData'[row.field] = row.value
               /\ Cardinality(mine) = 1
               /\ \A i \in mine :
                     /\ Added[i].id = idRef + 1
                     /\ Added[i].deduction = row.deduction
                     /\ Added[i].type = "critical"
                     /\ Added[i].sim
               /\ tripData'.cisScore
                    \in {Max(0, s - row.deduction) :
                           s \in IF pending.kind = "none" THEN {tripData.cisScore}
                                 ELSE TickScores(tripData.cisScore)}
               /\ (pending.kind = "none" => Len(Added) = 1)]_vars

C9_Witness ==
    /\ HasEvent(incidents, "Simulated Pothole")
    /\ HasEvent(incidents, "Simulated AC Failure")
    /\ HasEvent(incidents, "Simulated Cargo Shift")
    /\ tripData.peakGForce = PotholeG
    /\ tripData.currentTemp = AcTemp
    /\ tripData.currentTilt = ShiftTilt
    /\ tripData.cisScore = computeCIS(INITIAL_INCIDENTS) - 21

\* C10: from cisScore 88 (the empty seed), k pothole injections leave
\* max(0, 88 - 5k), which is 0 from the 18th on and so after 20; the score is
\* never negative, and once 0 it stays 0 under any further injection.
C10_PotholesReachFloor ==
    /\ [](tripData.cisScore >= 0)
    /\ [](CountEvent(incidents, "Simulated Pothole") = Len(incidents)
            => /\ tripData.cisScore = Max(0, BASE_CIS - 5 * Len(incidents))
               /\ (Len(incidents) >= 20 => tripData.cisScore = 0))
    /\ [][tripData.cisScore = 0 => tripData'.cisScore = 0]_vars

C10_Witness ==
    /\ CountEvent(incidents, "Simulated Pothole") = 20
    /\ Len(incidents) = 21
    /\ tripData.cisScore = 0

\* The most recent n samples of h, then the samples ts
KeepThenAppend(h, n, ts) == SubSeq(h, Len(h) - n + 1, Len(h)) \o ts

\* C11: inject(name) with a name that is not in the scenario table fails
\* with UnknownScenario and leaves the incident log, cisScore, the telemetry
\* and the temperature history unchanged.
C11_UnknownScenarioRejected ==
    [][\A name \in ScenarioNames \ Scenarios :
         Inject(name) => /\ thrown' = "UnknownScenario"
                         /\ UNCHANGED <<incidents, tripData, tempHistory>>]_vars

DeductionsNonNegative ==
    \A i \in 1..Len(incidents) : incidents[i].deduction >= 0

\* C15: selecting a crop name that is not a registered key (Tomatoes,
\* Bananas, Potatoes) fails with UnknownCropProfile, and the failed lookup
\* has no effect on the session: crop, run state, tick source, telemetry,
\* log, history and id counter stay as they were.
C15_UnknownCropRejected ==
    [][\A name \in CropNames \ Crops :
         SelectCrop(name) =>
           /\ thrown' = "UnknownCropProfile"
           /\ UNCHANGED <<crop, isAutoPlay, timers, tripData, incidents,
                          tempHistory, idRef>>]_vars

\* C16: the classifiers are strict on every threshold, for every value and
\* profile: temperature is critical iff temp > tempDanger, warning iff
\* tempWarning < temp <= tempDanger, else optimal; shock is critical iff
\* g > gforceCritical, warning iff gforceWarning < g <= gforceCritical, else
\* stable; tilt is critical iff tilt > tiltCritical, warning iff
\* 0.6 * tiltCritical < tilt <= tiltCritical, else stable.  For Tomatoes 30.0
\* is warning and 30.1 is critical.
C16_StrictThresholds ==
    derived # NotRendered =>
      LET p == CROP_PROFILES[crop]
          t == tripData.currentTemp
          g == tripData.peakGForce
          k == tripData.currentTilt
      IN  /\ derived.tempStatusKey = "critical" <=> t > p.tempDanger
          /\ derived.tempStatusKey = "warning"
                <=> (p.tempWarning < t /\ t <= p.tempDanger)
          /\ derived.tempStatusKey = "optimal" <=> t <= p.tempWarning
          /\ derived.shockStatusKey = "critical" <=> g > p.gforceCritical
          /\ derived.shockStatusKey = "warning"
                <=> (p.gforceWarning < g /\ g <= p.gforceCritical)
          /\ derived.shockStatusKey = "stable" <=> g <= p.gforceWarning
          /\ derived.tiltStatusKey = "critical" <=> k > p.tiltCritical
          /\ derived.tiltStatusKey = "warning"
                <=> (6 * p.tiltCritical < 10 * k /\ k <= p.tiltCritical)
          /\ derived.tiltStatusKey = "stable" <=> 10 * k <= 6 * p.tiltCritical
          /\ (crop = "Tomatoes" /\ t = 300) => derived.tempStatusKey = "warning"
          /\ (crop = "Tomatoes" /\ t = 301) => derived.tempStatusKey = "critical"

C16_Witness ==
    /\ crop = "Tomatoes"
    /\ tripData.currentTemp = 300
    /\ derived # NotRendered
    /\ derived.tempStatusKey = "warning"

\* C17: for every integer score in 0..100 and every registered cargoValue the
\* loss equals -((100 - score) * cargoValue / 100); loss(100, v) = 0,
\* loss(0, v) = -v and loss(69, 10000) = -3100.
C17_LossIsExact ==
    derived # NotRendered =>
      LET v == CROP_PROFILES[crop].cargoValue
          score == tripData.cisScore
      IN  /\ derived.marketLoss
                = [whole |-> -(((100 - score) * v) \div 100), ulps |-> 0]
          /\ score = 100 => derived.marketLoss.whole = 0
          /\ score = 0 => derived.marketLoss.whole = -v
          /\ (score = 69 /\ v = 10000) => derived.marketLoss.whole = -3100

\* |x| for a double near a whole number, and the order of two of them
Magnitude(x) ==
    IF x.whole < 0 \/ (x.whole = 0 /\ x.ulps < 0)
      THEN [whole |-> -x.whole, ulps |-> -x.ulps] ELSE x

Greater(a, b) == a.whole > b.whole \/ (a.whole = b.whole /\ a.ulps > b.ulps)

\* C18: the loss magnitude is strictly monotonic in the score: for every
\* cargoValue and all scores s1 < s2 in 0..100, |loss(s1)| > |loss(s2)|.
C18_LossStrictlyMonotonic ==
    derived # NotRendered =>
      \A s2 \in 0..100 :
         tripData.cisScore < s2 =>
           Greater(Magnitude(derived.marketLoss),
                   Magnitude(calcMarketLoss(s2, CROP_PROFILES[crop].cargoValue)))

C18_Witness ==
    /\ tripData.cisScore = 50
    /\ crop = "Potatoes"
    /\ derived # NotRendered
    /\ derived.marketLoss.whole = -3000

\* The last n elements of a sequence
LastOf(q, n) == SubSeq(q, Len(q) - Min(n, Len(q)) + 1, Len(q))

\* C19: the temperature history never holds more than 20 samples and keeps
\* insertion order: every operation (setTemperature, an ac injection, a
\* tick) puts its new samples last, after the most recent earlier samples
\* in their order, evicting the oldest first; after n overrides alone (25,
\* say) it holds the 20 most recent of the seed samples and the n new ones,
\* oldest first.
C19_HistoryIsRing ==
    /\ [](Len(tempHistory) <= 20)
    /\ [][\E k \in 0..3 :
             /\ k <= Len(tempHistory')
             /\ tempHistory'
                   = LastOf(tempHistory \o LastOf(tempHistory', k), 20)]_vars
    /\ []((autoRef = 0 /\ CountSim(incidents) = 0)
            => tempHistory
                 = LastOf(INITIAL_TEMP_HISTORY \o [i \in 1..ops |-> Ramp(i)], 20))

C19_Witness ==
    /\ ops = 25
    /\ autoRef = 0
    /\ CountSim(incidents) = 0
    /\ Len(tempHistory) = 20
    /\ tempHistory[1] = Ramp(6)
    /\ tempHistory[20] = Ramp(25)

\* The seed of the session: the incidents no operation appended
SeedOf(log) == SubSeq(log, 1, Len(log) - CountSim(log))

\* 88 less the deductions of the first k incidents of INITIAL_INCIDENTS
SeedScores == << 88, 88, 86, 81, 80, 73, 72, 69, 69 >>

C21_EndToEnd ==
    /\ tripData.cisScore = 69
    /\ crop = "Tomatoes"
    /\ incidents = INITIAL_INCIDENTS
    /\ [][(/\ incidents = INITIAL_INCIDENTS
           /\ crop = "Tomatoes"
           /\ pending.kind = "none"
           /\ Inject("ac"))
            => /\ tripData'.cisScore = 59
               /\ tripData'.currentTemp = 350
               /\ derived'.tempStatusKey = "critical"
               /\ derived'.marketLoss = [whole |-> -4100, ulps |-> 0]]_vars

C21_Witness ==
    /\ ops = 1
    /\ crop = "Tomatoes"
    /\ Len(incidents) = Len(INITIAL_INCIDENTS) + 1
    /\ HasEvent(incidents, "Simulated AC Failure")
    /\ tripData.cisScore = 59
    /\ tripData.currentTemp = 350
    /\ derived.tempStatusKey = "critical"
    /\ derived.marketLoss.whole = -4100

-----------------------------------------------------------------------------
(* The row highlight: injections and ticks with the timeouts that clear      *)
(* newRowId                                                                  *)

\* setTimeout(() => setNewRowId(null), 2000) of handleInject and
\* setTimeout(() => setNewRowId(null), 1500) of the tick: one of them is
\* still to fire while newRowId holds an id (each is set with the id it is
\* to clear), and one that fires while newRowId is null changes nothing.
\* Taken here with no tick in flight.
NewRowExpire ==
    /\ thrown = "none"
    /\ pending.kind = "none"
    /\ newRowId # 0
    /\ newRowId' = 0
    /\ UNCHANGED <<crop, isAutoPlay, tripData, incidents, tempHistory, derived,
                   idRef, autoRef, timers, pending, thrown, ops>>

NextNotify ==
    \/ \E type \in Scenarios : Inject(type)
    \/ ToggleAutoPlay
    \/ \E t \in timers : TickEager(t)
    \/ \E t \in timers : TickLazy(t)
    \/ Render
    \/ NewRowExpire

SpecNotify == Init /\ [][NextNotify]_vars

\* C22: every incident append, by an injection or by a tick, emits exactly
\* one "incident appended" notification carrying the id of the incident just
\* appended (newRowId shows that id once the append is rendered), and no
\* notification is emitted when nothing was appended (newRowId then stays,
\* or is cleared by its timeout).
C22_NotifiesEachAppend ==
    [][/\ \A a \in 1..Len(Added) : newRowId' = Added[a].id
       /\ Added = <<>> => newRowId' \in {newRowId, 0}]_vars

\* What does hold of newRowId: it shows the id of the last incident the
\* step appended
NewRowIsLastAppended ==
    [][/\ Added # <<>> => newRowId' = Added[Len(Added)].id
       /\ Added = <<>> => newRowId' \in {newRowId, 0}]_vars

\* C23: selectCrop(name) for a registered name changes only the active
\* profile: it makes `name` the crop and leaves the run state alone, and
\* (with no tick in flight for its render to commit) cisScore, the incident
\* log, currentTemp, peakGForce, currentTilt, the temperature history and
\* the id counter are unchanged, so past deductions persist across profile
\* switches.
C23_SelectCropKeepsSession ==
    [][\A name \in Crops :
         SelectCrop(name) =>
           /\ crop' = name
           /\ isAutoPlay' = isAutoPlay
           /\ tripData'.currentTilt = tripData.currentTilt
           /\ pending.kind = "none"
                => UNCHANGED <<tripData, incidents, tempHistory, idRef>>]_vars

C23_Witness ==
    /\ crop = "Bananas"
    /\ ops = 2
    /\ HasEvent(incidents, "Simulated AC Failure")
    /\ tripData.cisScore = 59
    /\ tripData.currentTemp = 350
    /\ idRef = IdStart + 1
    /\ derived.marketLoss.whole = -3280

-----------------------------------------------------------------------------
(* One tick in full: the simulator running under any crop, on the session    *)
(* as constructed or late in a trip (score 1), with the temperature slider   *)
(* left alone or moved next to an end of its range, and a tick that draws    *)
(* any of the values it can draw                                             *)

\* Slider positions next to the ends of the range: 15.0, 15.3, 44.7, 45.0
EdgeTemps ==
    {TempSliderMin, TempSliderMin + 3, TempSliderMax - 3, TempSliderMax}

LateSession == AfterInjects(AfterInjects(StartSession, "ac", 5), "shift", 3)

TickSessions ==
    LET bases == {StartSession, LateSession}
    IN  bases \cup {ClickStep(st, [op |-> "temp", arg |-> v]) :
                      st \in bases, v \in EdgeTemps}

InitTicks ==
    \E st \in TickSessions :
        /\ crop \in Crops
        /\ isAutoPlay = TRUE
        /\ tripData = st.trip
        /\ incidents = st.incs
        /\ tempHistory = st.hist
        /\ derived = Derive(st.trip, CROP_PROFILES[crop])
        /\ newRowId = 0
        /\ idRef = st.idRef
        /\ autoRef = 1
        /\ timers = {[id |-> 1, crop |-> crop]}
        /\ pending = NoTick
        /\ thrown = "none"
        /\ ops = 0

FirstTickEager(t) ==
    /\ ops = 0
    /\ \E d \in AllDraws(CROP_PROFILES[t.crop]) : DispatchEagerWith(t, d)
    /\ ops' = ops + 1

FirstTickLazy(t) ==
    /\ ops = 0
    /\ DispatchLazy(t)
    /\ ops' = ops + 1

NextTicks ==
    \/ \E t \in timers : FirstTickEager(t)
    \/ \E t \in timers : FirstTickLazy(t)
    \/ Render

SpecTicks == InitTicks /\ [][NextTicks]_vars

\* C24: a tick appends an incident if and only if a shock was drawn in that
\* tick and its magnitude exceeds the active profile's gforceCritical; the
\* incident then carries that shock (the new peakGForce), has deduction 3 if
\* the shock > 1.5 * gforceCritical and 1 otherwise, severity critical if
\* the shock > 1.3 * gforceCritical and warning otherwise, and origin
\* simulated; cisScore drops by exactly that deduction (floored at 0), and
\* is unchanged when nothing is appended.
C24_TickAppendsOnCriticalShock ==
    [][Render =>
         LET gc == CROP_PROFILES[crop].gforceCritical
             g == tripData'.peakGForce
         IN  /\ Len(Added) <= 1
             /\ pending.kind = "eager"
                  => (Added # <<>> <=> (pending.draw.fires /\ pending.draw.g > gc))
             /\ \A a \in 1..Len(Added) :
                   /\ Added[a].gforce = g
                   /\ g > gc
                   /\ Added[a].deduction = IF 10 * g > 15 * gc THEN 3 ELSE 1
                   /\ Added[a].type
                        = IF 10 * g > 13 * gc THEN "critical" ELSE "warning"
                   /\ Added[a].sim
                   /\ tripData'.cisScore
                        = Max(0, tripData.cisScore - Added[a].deduction)
             /\ Added = <<>> => tripData'.cisScore = tripData.cisScore]_vars

\* C25: each tick sets currentTemp to clamp(previous currentTemp + drift, 15,
\* 45) with drift in -0.5 .. 0.5 at one-decimal resolution, so one tick moves
\* the temperature by at most 0.5 and never outside 15 .. 45.
C25_TickTempDrift ==
    /\ [](tripData.currentTemp \in 150..450)
    /\ [][Render =>
            LET t == tripData.currentTemp
                u == tripData'.currentTemp
            IN  /\ \E drift \in (-5)..5 : u = Min(450, Max(150, t + drift))
                /\ pending.kind = "eager"
                     => u = Min(450, Max(150, t + pending.draw.drift))
                /\ u - t \in (-5)..5]_vars

C25_Witness ==
    /\ ops = 1
    /\ pending.kind = "none"
    /\ tripData.currentTemp = 450
    /\ Len(tempHistory) = Len(INITIAL_TEMP_HISTORY) + 2
    /\ tempHistory[Len(tempHistory) - 1] = 450

\* C26: a tick in which no shock is drawn leaves peakGForce, cisScore and
\* the incident log unchanged; a tick in which a shock is drawn replaces
\* peakGForce with that shock, a value in 0.5 .. 0.5 + 1.8 * gforceCritical;
\* no tick ever changes currentTilt or the active crop.
C26_TickFrame ==
    [][(Render \/ \E t \in timers : FirstTickEager(t) \/ FirstTickLazy(t)) =>
         LET gc == CROP_PROFILES[crop].gforceCritical
         IN  /\ tripData'.currentTilt = tripData.currentTilt
             /\ crop' = crop
             /\ (Render /\ pending.kind = "eager" /\ ~pending.draw.fires)
                  => /\ tripData'.peakGForce = tripData.peakGForce
                     /\ tripData'.cisScore = tripData.cisScore
                     /\ incidents' = incidents
             /\ (Render /\ pending.kind = "eager" /\ pending.draw.fires)
                  => /\ tripData'.peakGForce = pending.draw.g
                     /\ 10 * tripData'.peakGForce >= 5
                     /\ 10 * tripData'.peakGForce <= 5 * 10 + 18 * gc]_vars

\* C27: setTemperature and setGForce work in both run states, STOPPED and
\* RUNNING, and neither changes the run state; with no tick in flight for
\* their render to commit, neither appends an incident, changes cisScore or
\* consumes an id, setGForce changes peakGForce only (currentTemp,
\* currentTilt and the temperature history stay) and setTemperature leaves
\* peakGForce and currentTilt unchanged.
C27_OverridesFrame ==
    [][/\ \A v \in TempInputs :
            SetTemperature(v) =>
              /\ tripData'.currentTemp = v
              /\ tripData'.currentTilt = tripData.currentTilt
              /\ isAutoPlay' = isAutoPlay
              /\ timers' = timers
              /\ thrown' = "none"
              /\ pending.kind = "none"
                   => /\ tripData' = [tripData EXCEPT !.currentTemp = v]
                      /\ UNCHANGED <<incidents, idRef>>
       /\ \A v \in GForceInputs :
            SetGForce(v) =>
              /\ tripData'.peakGForce = v
              /\ tripData'.currentTilt = tripData.currentTilt
              /\ isAutoPlay' = isAutoPlay
              /\ timers' = timers
              /\ thrown' = "none"
              /\ pending.kind = "none"
                   => /\ tripData' = [tripData EXCEPT !.peakGForce = v]
                      /\ UNCHANGED <<incidents, idRef, tempHistory>>]_vars

\* Both overrides made while RUNNING, after a tick: the history ends with the
\* tick's sample and the override's
C27_Witness ==
    /\ isAutoPlay
    /\ pending.kind = "none"
    /\ ops = 3
    /\ Len(tempHistory) = Len(INITIAL_TEMP_HISTORY) + 2
    /\ tempHistory[Len(tempHistory)] = 450
    /\ tempHistory[Len(tempHistory) - 1] = InitTemp + MaxDrift
    /\ tripData = [StartSession.trip EXCEPT !.currentTemp = 450, !.peakGForce = 50]
    /\ incidents = INITIAL_INCIDENTS
    /\ idRef = IdStart

\* The score after the injections of the log alone, from the seed's 69
InjectedScore(log) ==
    Max(0, computeCIS(INITIAL_INCIDENTS)
             - 5 * CountEvent(log, "Simulated Pothole")
             - 10 * CountEvent(log, "Simulated AC Failure")
             - 6 * CountEvent(log, "Simulated Cargo Shift"))

\* C28: each injection is one atomic override plus one incident append that
\* changes only its own field (with no tick in flight for its render to
\* commit): pothole leaves currentTemp, currentTilt and the temperature
\* history unchanged; shift (cargo_shift) leaves currentTemp, peakGForce and
\* the temperature history unchanged; ac (ac_failure) leaves peakGForce and
\* currentTilt unchanged and is the only one that appends a temperature
\* sample, exactly one, with temp 35.0.  No state has the field set with the
\* incident or its deduction missing.
C28_InjectionFrame ==
    /\ [][\A type \in Scenarios :
            (pending.kind = "none" /\ Inject(type)) =>
              /\ Len(Added) = 1
              /\ tripData'.cisScore
                   = Max(0, tripData.cisScore - Added[1].deduction)
              /\ type = "pothole"
                   => /\ tripData'.currentTemp = tripData.currentTemp
                      /\ tripData'.currentTilt = tripData.currentTilt
                      /\ tempHistory' = tempHistory
              /\ type = "shift"
                   => /\ tripData'.currentTemp = tripData.currentTemp
                      /\ tripData'.peakGForce = tripData.peakGForce
                      /\ tempHistory' = tempHistory
              /\ type = "ac"
                   => /\ tripData'.peakGForce = tripData.peakGForce
                      /\ tripData'.currentTilt = tripData.currentTilt
                      /\ tempHistory'
                           = KeepThenAppend(tempHistory,
                                            Min(Len(tempHistory), 19), << 350 >>)]_vars
    /\ [](tripData.currentTilt = 28 <=> HasEvent(incidents, "Simulated Cargo Shift"))
    /\ [](tripData.currentTilt \in {12, 28})
    /\ [](tripData.cisScore <= InjectedScore(incidents))

C28_Witness ==
    /\ ops = 3
    /\ autoRef = 0
    /\ CountSim(incidents) = 3
    /\ tripData = [cisScore |-> 48, currentTemp |-> 350, peakGForce |-> 35,
                   currentTilt |-> 28]
    /\ tempHistory = INITIAL_TEMP_HISTORY \o << 350 >>

\* The class of a reading against two thresholds: above hi, above lo (both
\* as tenfold values), or neither
ClassOf(x10, lo10, hi10, normal) ==
    IF x10 > hi10 THEN "critical" ELSE IF x10 > lo10 THEN "warning" ELSE normal

\* The classifications a profile gives the telemetry snapshot trip
ClassesOf(trip, p) ==
    [tempStatusKey |-> ClassOf(trip.currentTemp, p.tempWarning, p.tempDanger,
                               "optimal"),
     shockStatusKey |-> ClassOf(trip.peakGForce, p.gforceWarning,
                                p.gforceCritical, "stable"),
     tiltStatusKey |-> ClassOf(10 * trip.currentTilt, 6 * p.tiltCritical,
                               10 * p.tiltCritical, "stable")]

Exposed == [k \in {"tempStatusKey", "shockStatusKey", "tiltStatusKey"} |->
              derived[k]]

\* C29: in every reachable state the exposed classification of temperature,
\* shock and tilt is that of the current telemetry snapshot under the
\* currently active profile; in particular, right after selectCrop the
\* classifications are those of the new profile's thresholds, with no stale
\* value.
C29_ClassificationIsCurrent ==
    /\ [](Exposed = ClassesOf(tripData, CROP_PROFILES[crop]))
    /\ [][\A name \in Crops :
            SelectCrop(name)
              => Exposed' = ClassesOf(tripData', CROP_PROFILES[name])]_vars

\* After selectCrop("Bananas") on the constructed session: 28.5 C, a warning
\* for Tomatoes, is critical for Bananas
C29_Witness ==
    /\ crop = "Bananas"
    /\ tripData = StartSession.trip
    /\ derived.tempStatusKey = "critical"
    /\ getTempStatusKey(tripData.currentTemp, CROP_PROFILES["Tomatoes"]) = "warning"

\* The tick incidents among the entries a step appended
ShocksAdded == {a \in 1..Len(Added) : Added[a].event = "Auto: Road Shock"}

\* C30: selectCrop while the simulator is RUNNING keeps it RUNNING, with one
\* interval armed, that of the selected profile; every armed interval and
\* every tick in flight is of the active crop, so every tick that executes
\* after the switch draws its shock from the selected profile's range
\* (0.5 .. 0.5 + 1.8 * gforceCritical) and computes whether it hits, its
\* deduction and its severity from that profile's gforceCritical, never
\* from the previous profile's.
C30_TickUsesSelectedProfile ==
    /\ [](\A t \in timers : t.crop = crop)
    /\ [](pending.kind # "none" => pending.crop = crop)
    /\ [][\A name \in Crops :
            (isAutoPlay /\ SelectCrop(name))
              => /\ isAutoPlay'
                 /\ timers' = {[id |-> autoRef', crop |-> name]}]_vars
    /\ [][(\E t \in timers : TickEager(t)) =>
            LET gc == CROP_PROFILES[crop].gforceCritical
                d == pending'.draw
            IN  /\ d.fires => (10 * d.g >= 5 * 10 /\ 10 * d.g <= 5 * 10 + 18 * gc)
                /\ pending'.inc # <<>> <=> (d.fires /\ d.g > gc)]_vars
    /\ [][\A a \in ShocksAdded :
            LET gc == CROP_PROFILES[crop].gforceCritical
                g == Added[a].gforce
            IN  /\ g > gc
                /\ 10 * g <= 5 * 10 + 18 * gc
                /\ Added[a].deduction = IF 10 * g > 15 * gc THEN 3 ELSE 1
                /\ Added[a].type
                     = IF 10 * g > 13 * gc THEN "critical" ELSE "warning"]_vars

\* A tick under Tomatoes (3.1 g), the switch to Potatoes, and a tick under
\* Potatoes (4.6 g, above 1.5 * 3.0)
C30_Witness ==
    /\ isAutoPlay
    /\ crop = "Potatoes"
    /\ timers = {[id |-> autoRef, crop |-> "Potatoes"]}
    /\ Len(incidents) = Len(INITIAL_INCIDENTS) + 2
    /\ incidents[Len(incidents) - 1].event = "Auto: Road Shock"
    /\ incidents[Len(incidents) - 1].gforce = 31
    /\ incidents[Len(incidents)].event = "Auto: Road Shock"
    /\ incidents[Len(incidents)].gforce = 46
    /\ incidents[Len(incidents)].deduction = 3

\* C31: in every reachable state at most one periodic tick source is armed,
\* and one is armed if and only if the simulator is RUNNING (it is the one
\* autoRef holds); start/stop cycles and crop switches never leave a second
\* or an orphaned tick source behind.  (A Dashboard that was unmounted runs
\* nothing and has none armed.)
C31_OneTickSource ==
    /\ Cardinality(timers) <= 1
    /\ \A t \in timers : t.id = autoRef
    /\ thrown = "none" => (isAutoPlay <=> timers # {})
    /\ thrown # "none" => timers = {}

\* Running under Bananas after a tick under Tomatoes (3.1 g): the simulator
\* was running before the crop switch and is running after it
C31_Witness ==
    /\ isAutoPlay
    /\ crop = "Bananas"
    /\ Cardinality(timers) = 1
    /\ HasEvent(incidents, "Auto: Road Shock")
    /\ incidents[Len(incidents)].gforce = 31
    /\ ops = 3

\* C32: cisScore never increases: after every operation (an injection, a
\* tick, a temperature or g-force override, a crop switch, start, stop) the
\* score is less than or equal to the score before it.
C32_ScoreNeverIncreases ==
    [][tripData'.cisScore <= tripData.cisScore]_vars

\* After an AC failure, a tick with a shock above 1.5 times the threshold and
\* a crop switch: 69 - 10 - 3
C32_Witness ==
    /\ ops = 3
    /\ crop # "Tomatoes"
    /\ HasEvent(incidents, "Simulated AC Failure")
    /\ HasEvent(incidents, "Auto: Road Shock")
    /\ tripData.cisScore = 56

-----------------------------------------------------------------------------
(* The temperature alone: the slider set to any value, AC failures and the   *)
(* simulator's ticks                                                         *)

NextTemps ==
    \/ \E val \in TempValues : SetTemperature(val)
    \/ Inject("ac")
    \/ ToggleAutoPlay
    \/ \E t \in timers : TickEager(t)
    \/ \E t \in timers : TickLazy(t)
    \/ Render

SpecTemps == Init /\ [][NextTemps]_vars

-----------------------------------------------------------------------------
(* C34: the temperature history follows currentTemp *)

\* C34: in every reachable state the most recent sample of the temperature
\* history has the temperature of currentTemp, and every step either leaves
\* both alone or changes them together: it appends exactly one sample, the
\* new currentTemp, evicting the oldest sample when the buffer is full.
C34_HistoryTracksTemp ==
    /\ [](tempHistory[Len(tempHistory)] = tripData.currentTemp)
    /\ [][(tempHistory' # tempHistory
             \/ tripData'.currentTemp # tripData.currentTemp)
            => tempHistory'
                 = LastOf(tempHistory \o << tripData'.currentTemp >>, 20)]_vars

-----------------------------------------------------------------------------
(* C35: what an appended incident records *)

\* C35: every step that appends to the incident log, an injection or a tick,
\* alone or racing with another operation, leaves the telemetry it produces
\* in the incident it appended last: that incident's gforce is the new
\* peakGForce and its temp is the new currentTemp.
C35_IncidentRecordsResult ==
    [][Added # <<>>
         => /\ Added[Len(Added)].gforce = tripData'.peakGForce
            /\ Added[Len(Added)].temp = tripData'.currentTemp]_vars

-----------------------------------------------------------------------------
(* C36: the displayed total deduction *)

\* The "Deduction" and "Total Deduction" figures of the dashboard
totalDeduction == BASE_CIS - tripData.cisScore

\* C36: in every reachable state totalDeduction = 88 - cisScore lies in 0..88,
\* and it is the sum of the deductions of all incidents in the log while
\* that sum is at most 88, and 88 once the sum is above 88.
C36_DeductionMatchesLog ==
    /\ totalDeduction \in 0..BASE_CIS
    /\ totalDeduction = Min(SumDeductions(incidents), BASE_CIS)

====
